---------------------------- MODULE Spec2Model ----------------------------
(***************************************************************************)
(* Comparison services for records (storage/innobase/rem/rem0cmp.cc).      *)
(*                                                                         *)
(* The comparators are pure functions of their arguments.  Each            *)
(* specification below draws the arguments of one entry point from         *)
(* bounded sets in its initial predicate and has one action per call of    *)
(* that entry point:                                                      *)
(*   SpecData    cmp_data_data                                             *)
(*   SpecTuple   cmp_dtuple_rec_with_match_low (called, then resumed)      *)
(*   SpecSimple  cmp_rec_rec_simple                                        *)
(*   SpecRec     cmp_rec_rec_with_match                                    *)
(*   SpecOrder   cmp_data_data on three fields of a byte-compared type     *)
(*   SpecPrefix  cmp_dtuple_is_prefix_of_rec                               *)
(***************************************************************************)
EXTENDS Integers, Sequences, FiniteSets, TLC

VARIABLES
    pc,             \* position of the caller: "start", "returned", "done", "fatal", ...
    ret,            \* value returned by the last call
    mtype,          \* cmp_data_data: main type
    prtype,         \* cmp_data_data: precise type
    data1,          \* cmp_data_data: first data field (the bytes data1 points to)
    len1,           \* cmp_data_data: length of data1, or UNIV_SQL_NULL
    data2,          \* cmp_data_data: second data field
    len2,           \* cmp_data_data: length of data2, or UNIV_SQL_NULL
    data3,          \* a third data field of the same type, for later calls
    len3,           \* length of data3, or UNIV_SQL_NULL
    dtuple,         \* cmp_dtuple_rec_...: the data tuple
    rec,            \* cmp_dtuple_rec_...: the physical record (with its offsets)
    n_cmp,          \* cmp_dtuple_rec_...: number of fields to compare
    matched_fields, \* in/out (tuple) or out (records): completely matched fields
    matched_in,     \* *matched_fields as passed to the first call
    calls,          \* number of calls of the entry point made so far
    rec1,           \* cmp_rec_rec_...: first physical record
    rec2,           \* cmp_rec_rec_...: second physical record
    index,          \* cmp_rec_rec_...: the dictionary index
    nulls_unequal,  \* cmp_rec_rec_with_match: statistics mode
    table,          \* cmp_rec_rec_simple: MySQL table for the report, or NULL
    reported,       \* cmp_rec_rec_simple: innobase_rec_to_mysql() was called
    cur_n           \* cmp_rec_rec_simple: the field n the call ended at

vars == <<pc, ret, mtype, prtype, data1, len1, data2, len2, data3, len3, dtuple, rec, n_cmp,
          matched_fields, matched_in, calls, rec1, rec2, index, nulls_unequal,
          table, reported, cur_n>>

dataVars == <<mtype, prtype, data1, len1, data2, len2, data3, len3>>
tupleVars == <<dtuple, rec, n_cmp, matched_fields, matched_in, calls>>
recVars == <<rec1, rec2, index, nulls_unequal, table, reported, cur_n>>

-----------------------------------------------------------------------------
(* Bounds of the model *)

\* longest data field, in bytes
MaxLen == 2
\* longest DATA_DECIMAL field, in bytes
MaxDecLen == 3

-----------------------------------------------------------------------------
(* Constants of the program *)

\* The length that marks an SQL NULL field.  The program uses the largest
\* 32-bit value; the model needs only a value that is no field length.
UNIV_SQL_NULL == 2147483647
\* "No pad character" as returned by dtype_get_pad_char(); no byte value.
ULINT_UNDEFINED == -1
\* The outcome of a call that ends in ib_logf(IB_LOG_LEVEL_FATAL) or ut_error:
\* the server aborts and nothing is returned.
FATAL == 2

\* ' ', '-', '+' and '0' as cmp_whole_field tests them
CH_SPACE == 32
CH_MINUS == 45
CH_PLUS == 43
CH_ZERO == 48

Min2(a, b) == IF a < b THEN a ELSE b
MinOf(S) == CHOOSE x \in S : \A y \in S : x <= y
Sign(x) == IF x < 0 THEN -1 ELSE IF x > 0 THEN 1 ELSE 0

\* All sequences over S of length at most n
RECURSIVE SeqsUpTo(_, _)
SeqsUpTo(S, n) ==
    IF n = 0 THEN {<<>>}
    ELSE LET shorter == SeqsUpTo(S, n - 1)
         IN  shorter \cup {Append(s, x) : s \in {t \in shorter : Len(t) = n - 1}, x \in S}

-----------------------------------------------------------------------------
(* Collaborators outside rem0cmp.cc *)

\* dtype_get_pad_char(mtype, prtype): the pad character of a type, or
\* ULINT_UNDEFINED.  The function lives outside this file; the model carries
\* its answer with the precise type, so every assignment of pad characters
\* to types is covered.
dtype_get_pad_char(mt, prt) == prt.pad_char

\* get_charset(cs_num): whether the charset-collation can be found.
get_charset(prt) == prt.charset_found

\* strnncollsp of a collation: compares two strings ignoring trailing
\* spaces, and returns a signed magnitude.  Modelled as the byte order of
\* the strings with the shorter one extended by spaces.
strnncollsp(a, a_length, b, b_length) ==
    LET n == IF a_length > b_length THEN a_length ELSE b_length
        A(i) == IF i <= a_length THEN a[i] ELSE CH_SPACE
        B(i) == IF i <= b_length THEN b[i] ELSE CH_SPACE
        D == {i \in 1..n : A(i) # B(i)}
    IN  IF D = {} THEN 0 ELSE A(MinOf(D)) - B(MinOf(D))

\* mach_float_read / mach_double_read: the number a field encodes.  The
\* model's FLOAT and DOUBLE fields are one cell long and hold the number
\* itself; FLOAT_NAN stands for a NaN.
FLOAT_NAN == 0 - 1
mach_float_read(a) == a[1]
\* IEEE '>' : false whenever an operand is a NaN
FloatGt(x, y) == x # FLOAT_NAN /\ y # FLOAT_NAN /\ x > y

-----------------------------------------------------------------------------
(* cmp_whole_field, DATA_DECIMAL *)

\* The first position p >= pos with p > last or a[p] \notin S:
\*   for (; length && *a in S; a++, length--) { }
RECURSIVE SkipChars(_, _, _, _)
SkipChars(a, pos, last, S) ==
    IF pos <= last /\ a[pos] \in S THEN SkipChars(a, pos + 1, last, S) ELSE pos

\* Faulty variant: the sign of the operands is not taken into the result of the
\* digit comparison (swap_flag stays 1).
cmp_decimal_noswap(a, a_length, b, b_length) ==
    LET pa == SkipChars(a, 1, a_length, {CH_SPACE})
        pb == SkipChars(b, 1, b_length, {CH_SPACE})
    IN  IF a[pa] = CH_MINUS /\ b[pb] # CH_MINUS THEN -1
        ELSE IF a[pa] # CH_MINUS /\ b[pb] = CH_MINUS THEN 1
        ELSE
          LET neg == (a[pa] = CH_MINUS)
              qa == SkipChars(a, IF neg THEN pa + 1 ELSE pa, a_length, {CH_PLUS, CH_ZERO})
              qb == SkipChars(b, IF neg THEN pb + 1 ELSE pb, b_length, {CH_PLUS, CH_ZERO})
              la == a_length - qa + 1
              lb == b_length - qb + 1
              D == {i \in 0..(la - 1) : a[qa + i] # b[qb + i]}
          IN  IF la # lb THEN (IF la < lb THEN -1 ELSE 1)
              ELSE IF D = {} THEN 0
              ELSE IF a[qa + MinOf(D)] > b[qb + MinOf(D)] THEN 1 ELSE -1

\* case DATA_DECIMAL of cmp_whole_field.  pa, pb are the positions of a and
\* b after the preceding spaces; qa, qb after the sign and the '+'/'0'
\* padding; la, lb the lengths that remain.
cmp_decimal(a, a_length, b, b_length) ==
    LET pa == SkipChars(a, 1, a_length, {CH_SPACE})
        pb == SkipChars(b, 1, b_length, {CH_SPACE})
    IN  IF a[pa] = CH_MINUS /\ b[pb] # CH_MINUS THEN -1
        ELSE IF a[pa] # CH_MINUS /\ b[pb] = CH_MINUS THEN 1
        ELSE
          LET neg == (a[pa] = CH_MINUS)
              swap_flag == IF neg THEN -1 ELSE 1
              qa == SkipChars(a, IF neg THEN pa + 1 ELSE pa, a_length, {CH_PLUS, CH_ZERO})
              qb == SkipChars(b, IF neg THEN pb + 1 ELSE pb, b_length, {CH_PLUS, CH_ZERO})
              la == a_length - qa + 1
              lb == b_length - qb + 1
              D == {i \in 0..(la - 1) : a[qa + i] # b[qb + i]}
          IN  IF la # lb THEN (IF la < lb THEN -swap_flag ELSE swap_flag)
              ELSE IF D = {} THEN 0
              ELSE IF a[qa + MinOf(D)] > b[qb + MinOf(D)] THEN swap_flag
              ELSE -swap_flag

-----------------------------------------------------------------------------
(* innobase_mysql_cmp, cmp_whole_field *)

innobase_mysql_cmp(prt, a, a_length, b, b_length) ==
    IF get_charset(prt)
    THEN LET cmp == strnncollsp(a, a_length, b, b_length)
         IN  IF cmp < 0 THEN -1 ELSE IF cmp # 0 THEN 1 ELSE 0
    ELSE FATAL

cmp_whole_field(mt, prt, a, a_length, b, b_length) ==
    CASE mt = "DATA_DECIMAL" -> cmp_decimal(a, a_length, b, b_length)
      [] mt \in {"DATA_DOUBLE", "DATA_FLOAT"} ->
            LET f_1 == mach_float_read(a)
                f_2 == mach_float_read(b)
            IN  IF FloatGt(f_1, f_2) THEN 1
                ELSE IF FloatGt(f_2, f_1) THEN -1
                ELSE 0
      [] mt \in {"DATA_VARCHAR", "DATA_CHAR"} ->
            LET cmp == strnncollsp(a, a_length, b, b_length)
            IN  IF cmp < 0 THEN -1 ELSE IF cmp # 0 THEN 1 ELSE 0
      [] mt \in {"DATA_BLOB", "DATA_VARMYSQL", "DATA_MYSQL"} ->
            innobase_mysql_cmp(prt, a, a_length, b, b_length)
      [] mt = "DATA_GEOMETRY" -> 0
      [] OTHER -> FATAL

-----------------------------------------------------------------------------
(* cmp_data *)

\* Faulty variant: the SQL NULL is taken to be the greatest value of a field.
cmp_data_null_greatest(l1, l2) ==
    IF l1 = l2 THEN 0 ELSE IF l1 = UNIV_SQL_NULL THEN 1 ELSE -1

\* The branch of cmp_data taken when a length is UNIV_SQL_NULL
cmp_data_null(l1, l2) ==
    IF l1 = l2 THEN 0 ELSE IF l1 = UNIV_SQL_NULL THEN -1 ELSE 1

\* The switch of cmp_data: the types that are compared byte by byte
cmp_data_is_binary(mt, prt) ==
    \/ mt \in {"DATA_FIXBINARY", "DATA_BINARY", "DATA_INT", "DATA_SYS_CHILD", "DATA_SYS"}
    \/ mt = "DATA_BLOB" /\ prt.binary_type

\* memcmp(): the difference of the first bytes that differ (as unsigned
\* bytes) among the first n, or 0
memcmp(d1, d2, n) ==
    LET D == {i \in 1..n : d1[i] # d2[i]}
    IN  IF D = {} THEN 0 ELSE d1[MinOf(D)] - d2[MinOf(D)]

\* Faulty variant: the pad character is ignored, the longer field is the greater.
cmp_data_binary_nopad(mt, prt, d1, l1, d2, l2) ==
    LET len == Min2(l1, l2)
        r == memcmp(d1, d2, len)
    IN  IF r # 0 THEN (IF r < 0 THEN -1 ELSE 1)
        ELSE IF l1 = l2 THEN 0
        ELSE IF len < l1 THEN 1 ELSE -1

\* Faulty variant: the second padding loop answers as the first one does.
cmp_data_binary_asym(mt, prt, d1, l1, d2, l2) ==
    LET len == Min2(l1, l2)
        r == memcmp(d1, d2, len)
        pad == dtype_get_pad_char(mt, prt)
        X1 == {i \in (len + 1)..l1 : d1[i] # pad}
        X2 == {i \in (len + 1)..l2 : d2[i] # pad}
    IN  IF r # 0 THEN (IF r < 0 THEN -1 ELSE 1)
        ELSE IF l1 = l2 THEN 0
        ELSE IF pad = ULINT_UNDEFINED THEN (IF len < l1 THEN 1 ELSE -1)
        ELSE IF len < l1
        THEN (IF X1 = {} THEN 0 ELSE IF d1[MinOf(X1)] < pad THEN -1 ELSE 1)
        ELSE (IF X2 = {} THEN 0 ELSE IF d2[MinOf(X2)] < pad THEN -1 ELSE 1)

\* The byte-wise comparison of cmp_data, with the padding of the shorter
\* field.  X1 (X2) are the positions of data1 (data2) past the common length
\* that do not hold the pad character; each do-while loop returns at the
\* first of them.
cmp_data_binary(mt, prt, d1, l1, d2, l2) ==
    LET len == Min2(l1, l2)
        r == memcmp(d1, d2, len)
        pad == dtype_get_pad_char(mt, prt)
        X1 == {i \in (len + 1)..l1 : d1[i] # pad}
        X2 == {i \in (len + 1)..l2 : d2[i] # pad}
    IN  IF r # 0 THEN (IF r < 0 THEN -1 ELSE 1)
        ELSE IF l1 = l2 THEN 0
        ELSE IF pad = ULINT_UNDEFINED THEN (IF len < l1 THEN 1 ELSE -1)
        ELSE IF len < l1
        THEN (IF X1 = {} THEN 0 ELSE IF d1[MinOf(X1)] < pad THEN -1 ELSE 1)
        ELSE (IF X2 = {} THEN 0 ELSE IF pad < d2[MinOf(X2)] THEN -1 ELSE 1)

cmp_data(mt, prt, d1, l1, d2, l2) ==
    IF l1 = UNIV_SQL_NULL \/ l2 = UNIV_SQL_NULL THEN cmp_data_null(l1, l2)
    ELSE IF cmp_data_is_binary(mt, prt) THEN cmp_data_binary(mt, prt, d1, l1, d2, l2)
    ELSE cmp_whole_field(mt, prt, d1, l1, d2, l2)

cmp_data_data(mt, prt, d1, l1, d2, l2) == cmp_data(mt, prt, d1, l1, d2, l2)

-----------------------------------------------------------------------------
(* The arguments the specifications draw from *)

\* Bytes of binary and character fields: one below the space, the space,
\* and one above 127 (memcmp compares unsigned bytes)
FieldBytes == {9, 32, 200}
\* Digits of DATA_DECIMAL fields
DecDigits == {48, 49, 50}
\* Numbers held by DATA_FLOAT and DATA_DOUBLE fields
FloatCells == {FLOAT_NAN, 1, 2}
\* Answers of dtype_get_pad_char()
PadChars == {ULINT_UNDEFINED, 32}

PrType(bin, found, pad) ==
    [binary_type |-> bin, charset_found |-> found, pad_char |-> pad]

\* The types cmp_data_data is called with; DATA_MTYPE_MAX stands for a main
\* type the switch statements do not know.
DataTypes ==
    {[mtype |-> m, prtype |-> PrType(FALSE, TRUE, p)] :
        m \in {"DATA_FIXBINARY", "DATA_BINARY", "DATA_INT", "DATA_SYS_CHILD", "DATA_SYS"},
        p \in PadChars}
    \cup {[mtype |-> "DATA_BLOB", prtype |-> PrType(TRUE, TRUE, p)] : p \in PadChars}
    \cup {[mtype |-> m, prtype |-> PrType(FALSE, f, 32)] :
            m \in {"DATA_BLOB", "DATA_VARMYSQL", "DATA_MYSQL"}, f \in BOOLEAN}
    \cup {[mtype |-> m, prtype |-> PrType(FALSE, TRUE, ULINT_UNDEFINED)] :
            m \in {"DATA_VARCHAR", "DATA_CHAR", "DATA_DECIMAL", "DATA_FLOAT",
                   "DATA_DOUBLE", "DATA_GEOMETRY", "DATA_MTYPE_MAX"}}

\* A field: the bytes and their number, or UNIV_SQL_NULL
Field(d) == [data |-> d, len |-> Len(d)]
NullField == [data |-> <<>>, len |-> UNIV_SQL_NULL]

\* DATA_DECIMAL fields as MySQL stores them: spaces, an optional '-', '+' or
\* '0' padding, and at least one digit
DecimalStrings ==
    {sp \o sg \o pd \o dg :
        sp \in SeqsUpTo({CH_SPACE}, MaxDecLen - 1),
        sg \in {<<>>, <<CH_MINUS>>},
        pd \in SeqsUpTo({CH_PLUS, CH_ZERO}, MaxDecLen - 1),
        dg \in SeqsUpTo(DecDigits, MaxDecLen) \ {<<>>}}

FieldsOfType(mt) ==
    {NullField} \cup
    {Field(d) : d \in
        CASE mt = "DATA_DECIMAL" -> {s \in DecimalStrings : Len(s) <= MaxDecLen}
          [] mt \in {"DATA_FLOAT", "DATA_DOUBLE"} -> {<<c>> : c \in FloatCells}
          [] OTHER -> SeqsUpTo(FieldBytes, MaxLen)}

-----------------------------------------------------------------------------
(* SpecData: one call of cmp_data_data *)

IdleData ==
    /\ mtype = "DATA_BINARY" /\ prtype = PrType(FALSE, TRUE, ULINT_UNDEFINED)
    /\ data1 = <<>> /\ len1 = 0 /\ data2 = <<>> /\ len2 = 0
    /\ data3 = <<>> /\ len3 = 0
IdleTuple ==
    /\ dtuple = <<>> /\ rec = <<>> /\ n_cmp = 0
    /\ matched_in = 0 /\ calls = 0
IdleRec ==
    /\ rec1 = <<>> /\ rec2 = <<>> /\ index = <<>>
    /\ nulls_unequal = FALSE /\ table = FALSE /\ reported = FALSE /\ cur_n = 0

InitData ==
    /\ pc = "start" /\ ret = 0 /\ matched_fields = 0
    /\ \E ty \in DataTypes :
         /\ mtype = ty.mtype /\ prtype = ty.prtype
         /\ \E f1 \in FieldsOfType(ty.mtype), f2 \in FieldsOfType(ty.mtype) :
              /\ data1 = f1.data /\ len1 = f1.len
              /\ data2 = f2.data /\ len2 = f2.len
    /\ data3 = <<>> /\ len3 = 0
    /\ IdleTuple /\ IdleRec

CmpDataData ==
    /\ pc = "start"
    /\ LET r == cmp_data_data(mtype, prtype, data1, len1, data2, len2)
       IN  IF r = FATAL
           THEN pc' = "fatal" /\ ret' = ret
           ELSE pc' = "returned" /\ ret' = r
    /\ UNCHANGED <<dataVars, tupleVars, recVars>>

NextData == CmpDataData

SpecData == InitData /\ [][NextData]_vars

-----------------------------------------------------------------------------
(* SpecOrder: one call of cmp_data_data on the first two of three fields of
   a type that is compared byte by byte *)

BinaryTypes == {ty \in DataTypes : cmp_data_is_binary(ty.mtype, ty.prtype)}

InitOrder ==
    /\ pc = "start" /\ ret = 0 /\ matched_fields = 0
    /\ \E ty \in BinaryTypes :
         /\ mtype = ty.mtype /\ prtype = ty.prtype
         /\ \E f1 \in FieldsOfType(ty.mtype), f2 \in FieldsOfType(ty.mtype),
               f3 \in FieldsOfType(ty.mtype) :
              /\ data1 = f1.data /\ len1 = f1.len
              /\ data2 = f2.data /\ len2 = f2.len
              /\ data3 = f3.data /\ len3 = f3.len
    /\ IdleTuple /\ IdleRec

NextOrder == CmpDataData

SpecOrder == InitOrder /\ [][NextOrder]_vars

-----------------------------------------------------------------------------
(* cmp_dtuple_rec_with_match_low *)

\* the info bit of the predefined minimum record
REC_INFO_MIN_REC_FLAG == 16
\* info & flag, for a flag that is one bit
BitAnd(info, flag) == IF (info \div flag) % 2 = 1 THEN flag ELSE 0

dtuple_get_info_bits(t) == t.info_bits
dtuple_get_n_fields(t) == Len(t.fields)
dtuple_get_nth_field(t, n) == t.fields[n + 1]
rec_get_info_bits(r) == r.info_bits
rec_offs_n_fields(r) == Len(r.fields)
\* rec_get_nth_field(): the n'th field of a record, and
\* rec_get_nth_field_ext(): whether it is stored externally
rec_get_nth_field(r, n) == r.fields[n + 1]
rec_get_nth_field_ext(r, n) == r.fields[n + 1].ext

\* Faulty variant: cur_field is advanced before the result of the field is tested.
RECURSIVE cmp_dtuple_rec_loop_advance(_, _, _, _)
cmp_dtuple_rec_loop_advance(t, r, cur_field, n) ==
    IF cur_field >= n THEN [ret |-> 0, cur_field |-> cur_field]
    ELSE IF rec_get_nth_field_ext(r, cur_field)
    THEN [ret |-> FATAL, cur_field |-> cur_field]
    ELSE LET dtuple_field == dtuple_get_nth_field(t, cur_field)
             rec_field == rec_get_nth_field(r, cur_field)
             c == cmp_data(dtuple_field.type.mtype, dtuple_field.type.prtype,
                           dtuple_field.data, dtuple_field.len,
                           rec_field.data, rec_field.len)
         IN  IF c # 0 THEN [ret |-> c, cur_field |-> cur_field + 1]
             ELSE cmp_dtuple_rec_loop_advance(t, r, cur_field + 1, n)

\* "Match fields in a loop": the fields from cur_field up to n are compared
\* until one differs; an externally stored field of the record is ut_error.
RECURSIVE cmp_dtuple_rec_loop(_, _, _, _)
cmp_dtuple_rec_loop(t, r, cur_field, n) ==
    IF cur_field >= n THEN [ret |-> 0, cur_field |-> cur_field]
    ELSE IF rec_get_nth_field_ext(r, cur_field)
    THEN [ret |-> FATAL, cur_field |-> cur_field]
    ELSE LET dtuple_field == dtuple_get_nth_field(t, cur_field)
             rec_field == rec_get_nth_field(r, cur_field)
             c == cmp_data(dtuple_field.type.mtype, dtuple_field.type.prtype,
                           dtuple_field.data, dtuple_field.len,
                           rec_field.data, rec_field.len)
         IN  IF c # 0 THEN [ret |-> c, cur_field |-> cur_field]
             ELSE cmp_dtuple_rec_loop(t, r, cur_field + 1, n)

\* Faulty variant: the minimum record flags are not looked at.
cmp_dtuple_rec_with_match_low_noflag(t, r, n, matched) ==
    cmp_dtuple_rec_loop(t, r, matched, n)

\* The value returned and the value left in *matched_fields, for the value
\* `matched' of *matched_fields at the call.
cmp_dtuple_rec_with_match_low(t, r, n, matched) ==
    LET rec_info == rec_get_info_bits(r)
        tup_info == dtuple_get_info_bits(t)
    IN  IF matched = 0 /\ BitAnd(rec_info, REC_INFO_MIN_REC_FLAG) # 0
        THEN [ret |-> IF BitAnd(tup_info, REC_INFO_MIN_REC_FLAG) # 0 THEN 0 ELSE 1,
              cur_field |-> matched]
        ELSE IF matched = 0 /\ BitAnd(tup_info, REC_INFO_MIN_REC_FLAG) # 0
        THEN [ret |-> -1, cur_field |-> matched]
        ELSE cmp_dtuple_rec_loop(t, r, matched, n)

-----------------------------------------------------------------------------
(* SpecTuple: cmp_dtuple_rec_with_match_low is called, and called again with
   the matched fields it returned and as many or more fields to compare *)

\* number of fields of the tuple and of the record
MaxFields == 2
\* number of calls made for one tuple and record
MaxCalls == 2

\* Types of the fields of tuples and records: compared byte by byte, without
\* and with a pad character
ColTypes ==
    {[mtype |-> "DATA_INT", prtype |-> PrType(FALSE, TRUE, ULINT_UNDEFINED)],
     [mtype |-> "DATA_FIXBINARY", prtype |-> PrType(FALSE, TRUE, 32)]}
\* Fields of tuples and records: NULL, a byte, and the byte followed by a space
ColFields == {NullField, Field(<<200>>), Field(<<200, 32>>)}
\* info bits: none, and the minimum record flag
InfoBits == {0, REC_INFO_MIN_REC_FLAG}

DFields(ty) == {[data |-> f.data, len |-> f.len, type |-> ty] : f \in ColFields}
RFields == {[data |-> f.data, len |-> f.len, ext |-> FALSE] : f \in ColFields}
               \cup {[data |-> <<>>, len |-> 0, ext |-> TRUE]}

InitTuple ==
    /\ pc = "start" /\ ret = 0 /\ calls = 0
    /\ \E ty \in ColTypes :
         dtuple \in [fields : [1..MaxFields -> DFields(ty)], info_bits : InfoBits]
    /\ rec \in [fields : [1..MaxFields -> RFields], info_bits : InfoBits]
    /\ n_cmp \in 1..MaxFields
    /\ matched_in \in 0..n_cmp
    /\ matched_fields = matched_in
    /\ IdleData /\ IdleRec

CmpDtupleRecWithMatchLow ==
    /\ pc = "start"
    /\ LET r == cmp_dtuple_rec_with_match_low(dtuple, rec, n_cmp, matched_fields)
       IN  IF r.ret = FATAL
           THEN pc' = "fatal" /\ UNCHANGED <<ret, matched_fields>>
           ELSE pc' = "returned" /\ ret' = r.ret /\ matched_fields' = r.cur_field
    /\ calls' = calls + 1
    /\ UNCHANGED <<dataVars, dtuple, rec, n_cmp, matched_in, recVars>>

\* The caller goes on with the matched fields it was given and n_cmp or more
\* fields to compare.
Resume ==
    /\ pc = "returned" /\ calls < MaxCalls
    /\ \E n \in n_cmp..dtuple_get_n_fields(dtuple) : n_cmp' = n
    /\ pc' = "start"
    /\ UNCHANGED <<ret, dataVars, dtuple, rec, matched_fields, matched_in, calls, recVars>>

NextTuple == CmpDtupleRecWithMatchLow \/ Resume

SpecTuple == InitTuple /\ [][NextTuple]_vars

-----------------------------------------------------------------------------
(* cmp_rec_rec_simple *)

dict_index_get_n_unique(ix) == ix.n_uniq
dict_index_get_n_fields(ix) == ix.n_fields
dict_index_is_unique(ix) == ix.unique
dict_index_is_univ(ix) == ix.univ
dict_index_get_nth_col(ix, n) == ix.cols[n + 1]
rec_offs_nth_sql_null(r, n) == r.fields[n + 1].len = UNIV_SQL_NULL

cmp_rec_rec_simple_field(r1, r2, ix, n) ==
    LET col == dict_index_get_nth_col(ix, n)
        f1 == rec_get_nth_field(r1, n)
        f2 == rec_get_nth_field(r2, n)
    IN  cmp_data(col.mtype, col.prtype, f1.data, f1.len, f2.data, f2.len)

\* Faulty variant: a NULL in an ordering column is not remembered.
RECURSIVE cmp_rec_rec_simple_uniq_nonull(_, _, _, _, _)
cmp_rec_rec_simple_uniq_nonull(r1, r2, ix, n, null_eq) ==
    IF n >= dict_index_get_n_unique(ix)
    THEN [cmp |-> 0, n |-> n, null_eq |-> null_eq]
    ELSE LET cmp == cmp_rec_rec_simple_field(r1, r2, ix, n)
         IN  IF cmp # 0 THEN [cmp |-> cmp, n |-> n, null_eq |-> null_eq]
             ELSE cmp_rec_rec_simple_uniq_nonull(r1, r2, ix, n + 1, null_eq)

\* The first loop, over the n_uniq ordering columns: the first nonzero
\* comparison, the field reached and whether an equal column was NULL
RECURSIVE cmp_rec_rec_simple_uniq(_, _, _, _, _)
cmp_rec_rec_simple_uniq(r1, r2, ix, n, null_eq) ==
    IF n >= dict_index_get_n_unique(ix)
    THEN [cmp |-> 0, n |-> n, null_eq |-> null_eq]
    ELSE LET cmp == cmp_rec_rec_simple_field(r1, r2, ix, n)
         IN  IF cmp # 0 THEN [cmp |-> cmp, n |-> n, null_eq |-> null_eq]
             ELSE cmp_rec_rec_simple_uniq(r1, r2, ix, n + 1,
                                          null_eq \/ rec_offs_nth_sql_null(r1, n))

\* The second loop, over the remaining fields of the index
RECURSIVE cmp_rec_rec_simple_rest(_, _, _, _)
cmp_rec_rec_simple_rest(r1, r2, ix, n) ==
    IF n >= dict_index_get_n_fields(ix) THEN [cmp |-> 0, n |-> n]
    ELSE LET cmp == cmp_rec_rec_simple_field(r1, r2, ix, n)
         IN  IF cmp # 0 THEN [cmp |-> cmp, n |-> n]
             ELSE cmp_rec_rec_simple_rest(r1, r2, ix, n + 1)

\* Faulty variant: the return after the report of the duplicate is missing.
cmp_rec_rec_simple_fallthrough(r1, r2, ix, tbl) ==
    LET u == cmp_rec_rec_simple_uniq(r1, r2, ix, 0, FALSE)
        w == cmp_rec_rec_simple_rest(r1, r2, ix, u.n)
        rep == ~u.null_eq /\ tbl /\ dict_index_is_unique(ix)
    IN  IF u.cmp # 0
        THEN [ret |-> u.cmp, reported |-> FALSE, n |-> u.n, at |-> "return"]
        ELSE IF w.cmp # 0
        THEN [ret |-> w.cmp, reported |-> rep, n |-> w.n, at |-> "return"]
        ELSE [ret |-> 0, reported |-> rep, n |-> w.n, at |-> "ut_ad"]

\* The value returned, whether innobase_rec_to_mysql() was called, the field
\* n the call ended at, and whether it ended at a return statement or at
\* the ut_ad(0) that precedes the last one.
cmp_rec_rec_simple(r1, r2, ix, tbl) ==
    LET u == cmp_rec_rec_simple_uniq(r1, r2, ix, 0, FALSE)
        w == cmp_rec_rec_simple_rest(r1, r2, ix, u.n)
    IN  IF u.cmp # 0
        THEN [ret |-> u.cmp, reported |-> FALSE, n |-> u.n, at |-> "return"]
        ELSE IF ~u.null_eq /\ tbl /\ dict_index_is_unique(ix)
        THEN [ret |-> 0, reported |-> TRUE, n |-> u.n, at |-> "return"]
        ELSE IF w.cmp # 0
        THEN [ret |-> w.cmp, reported |-> FALSE, n |-> w.n, at |-> "return"]
        ELSE [ret |-> 0, reported |-> FALSE, n |-> w.n, at |-> "ut_ad"]

-----------------------------------------------------------------------------
(* SpecSimple: one call of cmp_rec_rec_simple *)

\* Records of n fields, none stored externally
Records(n) == [fields : [1..n -> RFields \ {f \in RFields : f.ext}], info_bits : InfoBits]

\* Indexes of n fields whose columns have the type ty
Indexes(n, ty) ==
    [n_uniq : 1..n, n_fields : {n}, unique : BOOLEAN, univ : BOOLEAN,
     cols : {[i \in 1..n |-> ty]}]

InitSimple ==
    /\ pc = "start" /\ ret = 0 /\ matched_fields = 0
    /\ reported = FALSE /\ cur_n = 0 /\ nulls_unequal = FALSE
    /\ \E ty \in ColTypes : index \in {ix \in Indexes(MaxFields, ty) : ~ix.univ}
    /\ rec1 \in {r \in Records(MaxFields) : r.info_bits = 0}
    /\ rec2 \in {r \in Records(MaxFields) : r.info_bits = 0}
    /\ table \in BOOLEAN
    /\ IdleData /\ IdleTuple

\* At the ut_ad(0) a debug build stops; any other build returns 0.
CmpRecRecSimple ==
    /\ pc = "start"
    /\ LET r == cmp_rec_rec_simple(rec1, rec2, index, table)
       IN  /\ reported' = r.reported
           /\ cur_n' = r.n
           /\ IF r.at = "ut_ad"
              THEN \/ pc' = "ut_ad" /\ ret' = ret
                   \/ pc' = "returned" /\ ret' = r.ret
              ELSE pc' = "returned" /\ ret' = r.ret
    /\ UNCHANGED <<dataVars, tupleVars, rec1, rec2, index, nulls_unequal, table>>

NextSimple == CmpRecRecSimple

SpecSimple == InitSimple /\ [][NextSimple]_vars

-----------------------------------------------------------------------------
(* cmp_rec_rec_with_match *)

\* Faulty variant: nulls_unequal is not looked at.
RECURSIVE cmp_rec_rec_loop_nulls_equal(_, _, _, _, _)
cmp_rec_rec_loop_nulls_equal(r1, r2, ix, nulls_uneq, cur_field) ==
    IF ~(cur_field < rec_offs_n_fields(r1) /\ cur_field < rec_offs_n_fields(r2))
    THEN [ret |-> 0, cur_field |-> cur_field, cur_field_set |-> TRUE]
    ELSE LET col == IF dict_index_is_univ(ix)
                    THEN [mtype |-> "DATA_BINARY",
                          prtype |-> PrType(FALSE, TRUE, ULINT_UNDEFINED)]
                    ELSE dict_index_get_nth_col(ix, cur_field)
             f1 == rec_get_nth_field(r1, cur_field)
             f2 == rec_get_nth_field(r2, cur_field)
             c == cmp_data(col.mtype, col.prtype, f1.data, f1.len, f2.data, f2.len)
         IN  IF c # 0
             THEN [ret |-> c, cur_field |-> cur_field, cur_field_set |-> TRUE]
             ELSE cmp_rec_rec_loop_nulls_equal(r1, r2, ix, nulls_uneq, cur_field + 1)

\* "Match fields in a loop": the common fields are compared from cur_field
\* on until one differs, or both are NULL and nulls_unequal is set.
RECURSIVE cmp_rec_rec_loop(_, _, _, _, _)
cmp_rec_rec_loop(r1, r2, ix, nulls_uneq, cur_field) ==
    IF ~(cur_field < rec_offs_n_fields(r1) /\ cur_field < rec_offs_n_fields(r2))
    THEN [ret |-> 0, cur_field |-> cur_field, cur_field_set |-> TRUE]
    ELSE LET col == IF dict_index_is_univ(ix)
                    THEN [mtype |-> "DATA_BINARY",
                          prtype |-> PrType(FALSE, TRUE, ULINT_UNDEFINED)]
                    ELSE dict_index_get_nth_col(ix, cur_field)
             f1 == rec_get_nth_field(r1, cur_field)
             f2 == rec_get_nth_field(r2, cur_field)
             c == cmp_data(col.mtype, col.prtype, f1.data, f1.len, f2.data, f2.len)
         IN  IF nulls_uneq /\ f1.len = UNIV_SQL_NULL /\ f2.len = UNIV_SQL_NULL
             THEN [ret |-> -1, cur_field |-> cur_field, cur_field_set |-> TRUE]
             ELSE IF c # 0
             THEN [ret |-> c, cur_field |-> cur_field, cur_field_set |-> TRUE]
             ELSE cmp_rec_rec_loop(r1, r2, ix, nulls_uneq, cur_field + 1)

\* Faulty variant: the flag of rec2 is not tested.
cmp_rec_rec_with_match_rec1only(r1, r2, ix, nulls_uneq) ==
    IF BitAnd(rec_get_info_bits(r1), REC_INFO_MIN_REC_FLAG) # 0
    THEN [ret |-> -1, cur_field |-> 0, cur_field_set |-> FALSE]
    ELSE cmp_rec_rec_loop(r1, r2, ix, nulls_uneq, 0)

\* The value returned and the value of cur_field at order_resolved.  The
\* two jumps of the minimum record test pass by the only assignment to
\* cur_field, the one that starts the loop: cur_field_set tells whether
\* cur_field has been assigned.
cmp_rec_rec_with_match(r1, r2, ix, nulls_uneq) ==
    IF BitAnd(rec_get_info_bits(r1), REC_INFO_MIN_REC_FLAG) # 0
    THEN [ret |-> -1, cur_field |-> 0, cur_field_set |-> FALSE]
    ELSE IF BitAnd(rec_get_info_bits(r2), REC_INFO_MIN_REC_FLAG) # 0
    THEN [ret |-> 1, cur_field |-> 0, cur_field_set |-> FALSE]
    ELSE cmp_rec_rec_loop(r1, r2, ix, nulls_uneq, 0)

-----------------------------------------------------------------------------
(* SpecRec: one call of cmp_rec_rec_with_match *)

\* Values an unassigned cur_field may hold: field numbers and numbers past
\* the fields of the records
Unassigned == 0..(MaxFields + 1)

InitRec ==
    /\ pc = "start" /\ ret = 0 /\ matched_fields = 0
    /\ reported = FALSE /\ cur_n = 0 /\ table = FALSE
    /\ \E ty \in ColTypes : index \in {ix \in Indexes(MaxFields, ty) :
                                         ix.n_uniq = MaxFields /\ ~ix.unique}
    /\ \E n1 \in 1..MaxFields : rec1 \in Records(n1)
    /\ \E n2 \in 1..MaxFields : rec2 \in Records(n2)
    /\ nulls_unequal \in BOOLEAN
    /\ IdleData /\ IdleTuple

\* With the flag on both records a debug build stops at the ut_ad of the
\* minimum record test; any other build goes on.  *matched_fields is
\* assigned cur_field, whatever cur_field holds.
CmpRecRecWithMatch ==
    /\ pc = "start"
    /\ LET r == cmp_rec_rec_with_match(rec1, rec2, index, nulls_unequal)
           both == /\ BitAnd(rec_get_info_bits(rec1), REC_INFO_MIN_REC_FLAG) # 0
                   /\ BitAnd(rec_get_info_bits(rec2), REC_INFO_MIN_REC_FLAG) # 0
       IN  \/ /\ both
              /\ pc' = "ut_ad"
              /\ UNCHANGED <<ret, matched_fields>>
           \/ /\ pc' = "returned"
              /\ ret' = r.ret
              /\ IF r.cur_field_set
                 THEN matched_fields' = r.cur_field
                 ELSE matched_fields' \in Unassigned
    /\ UNCHANGED <<dataVars, dtuple, rec, n_cmp, matched_in, calls, recVars>>

NextRec == CmpRecRecWithMatch

SpecRec == InitRec /\ [][NextRec]_vars

-----------------------------------------------------------------------------
(* cmp_dtuple_is_prefix_of_rec *)

dtuple_get_n_fields_cmp(t) == t.n_fields_cmp

\* cmp_dtuple_rec_with_match(): cmp_dtuple_rec_with_match_low() with the
\* number of fields of the tuple that take part in comparisons
cmp_dtuple_rec_with_match(t, r, matched) ==
    cmp_dtuple_rec_with_match_low(t, r, dtuple_get_n_fields_cmp(t), matched)

\* The value returned (TRUE is 1, FALSE is 0), the local matched_fields, and
\* whether the call ended at a return statement, at the ut_ad(0) of a tuple
\* longer than the record, or at the ut_error of an externally stored field.
cmp_dtuple_is_prefix_of_rec(t, r) ==
    LET n_fields == dtuple_get_n_fields(t)
        c == cmp_dtuple_rec_with_match(t, r, 0)
    IN  IF n_fields > rec_offs_n_fields(r)
        THEN [ret |-> 0, matched_fields |-> 0, at |-> "ut_ad"]
        ELSE IF c.ret = FATAL
        THEN [ret |-> 0, matched_fields |-> c.cur_field, at |-> "ut_error"]
        ELSE [ret |-> IF c.cur_field = n_fields THEN 1 ELSE 0,
              matched_fields |-> c.cur_field, at |-> "return"]

-----------------------------------------------------------------------------
(* SpecPrefix: one call of cmp_dtuple_is_prefix_of_rec, for a search tuple
   and a user record: neither has the minimum record flag *)

\* Tuples of n fields of the type ty; all the fields take part in
\* comparisons, as dtuple_create() leaves a tuple
Tuples(n, ty) ==
    [fields : [1..n -> DFields(ty)], info_bits : InfoBits, n_fields_cmp : {n}]

InitPrefix ==
    /\ pc = "start" /\ ret = 0 /\ calls = 0 /\ n_cmp = 0
    /\ matched_in = 0 /\ matched_fields = 0
    /\ \E ty \in ColTypes : \E n \in 1..MaxFields :
         dtuple \in {t \in Tuples(n, ty) : t.info_bits = 0}
    /\ \E n \in 1..MaxFields : rec \in [fields : [1..n -> RFields], info_bits : {0}]
    /\ IdleData /\ IdleRec

\* At the ut_ad(0) a debug build stops; any other build returns FALSE.
CmpDtupleIsPrefixOfRec ==
    /\ pc = "start"
    /\ LET r == cmp_dtuple_is_prefix_of_rec(dtuple, rec)
       IN  /\ matched_fields' = r.matched_fields
           /\ CASE r.at = "ut_error" -> pc' = "fatal" /\ ret' = ret
                [] r.at = "ut_ad" -> \/ pc' = "ut_ad" /\ ret' = ret
                                     \/ pc' = "returned" /\ ret' = r.ret
                [] OTHER -> pc' = "returned" /\ ret' = r.ret
    /\ calls' = calls + 1
    /\ UNCHANGED <<dataVars, dtuple, rec, n_cmp, matched_in, recVars>>

NextPrefix == CmpDtupleIsPrefixOfRec

SpecPrefix == InitPrefix /\ [][NextPrefix]_vars

-----------------------------------------------------------------------------
(* Properties of cmp_data_data, checked under SpecData *)

BothNonNull == len1 # UNIV_SQL_NULL /\ len2 # UNIV_SQL_NULL

C2_Antisymmetry ==
    pc = "returned" =>
        ret = -cmp_data_data(mtype, prtype, data2, len2, data1, len1)

\* Two padded fields of different length have been found unequal.
C2_Witness ==
    /\ pc = "returned" /\ BothNonNull /\ len1 < len2 /\ ret = 1
    /\ cmp_data_is_binary(mtype, prtype)
    /\ dtype_get_pad_char(mtype, prtype) # ULINT_UNDEFINED
    /\ memcmp(data1, data2, len1) = 0

\* d extended to n bytes with the byte P
PadTo(d, n, P) == [i \in 1..n |-> IF i <= Len(d) THEN d[i] ELSE P]
\* Order of two byte strings of the same length, as unsigned bytes
ByteOrder(x, y) ==
    LET D == {i \in 1..Len(x) : x[i] # y[i]}
    IN  IF D = {} THEN 0 ELSE IF x[MinOf(D)] < y[MinOf(D)] THEN -1 ELSE 1
IsStrictPrefix(x, y) == Len(x) < Len(y) /\ SubSeq(y, 1, Len(x)) = x

\* C3: for two non-NULL fields of a type compared byte by byte: with a pad
\* byte P the result is the byte order of the fields after the shorter one
\* has been extended with P to the length of the longer one; without a pad
\* byte, a field is greater than each of its strict prefixes.
C3_BinaryPadding ==
    (pc = "returned" /\ BothNonNull /\ cmp_data_is_binary(mtype, prtype)) =>
        LET pad == dtype_get_pad_char(mtype, prtype)
            n == IF len1 > len2 THEN len1 ELSE len2
        IN  IF pad # ULINT_UNDEFINED
            THEN ret = ByteOrder(PadTo(data1, n, pad), PadTo(data2, n, pad))
            ELSE /\ IsStrictPrefix(data1, data2) => ret = -1
                 /\ IsStrictPrefix(data2, data1) => ret = 1

\* A field and the same field followed by pad bytes only have compared equal.
C3_Witness ==
    /\ pc = "returned" /\ BothNonNull /\ cmp_data_is_binary(mtype, prtype)
    /\ dtype_get_pad_char(mtype, prtype) # ULINT_UNDEFINED
    /\ len1 > 0 /\ len1 < len2 /\ ret = 0

\* The integer a DATA_DECIMAL field denotes
RECURSIVE DigitsValue(_)
DigitsValue(s) ==
    IF s = <<>> THEN 0
    ELSE 10 * DigitsValue(SubSeq(s, 1, Len(s) - 1)) + (s[Len(s)] - CH_ZERO)
IsDigit(c) == c \in CH_ZERO..(CH_ZERO + 9)
HasMinus(s) == \E i \in 1..Len(s) : s[i] = CH_MINUS
DecValue(s) ==
    (IF HasMinus(s) THEN -1 ELSE 1) * DigitsValue(SelectSeq(s, IsDigit))

DecimalCompared ==
    pc = "returned" /\ mtype = "DATA_DECIMAL" /\ BothNonNull

\* C10 as claimed: the result is the sign of the numeric difference of the
\* two DATA_DECIMAL fields.
C10_DecimalNumericOrder ==
    DecimalCompared => ret = Sign(DecValue(data1) - DecValue(data2))

\* C10, amended: the result is the sign of the numeric difference, except
\* when both fields denote zero and exactly one of them carries a '-': then
\* the field with the '-' is the lesser one.
C10_DecimalOrder ==
    DecimalCompared =>
        IF DecValue(data1) = 0 /\ DecValue(data2) = 0
           /\ HasMinus(data1) # HasMinus(data2)
        THEN ret = (IF HasMinus(data1) THEN -1 ELSE 1)
        ELSE ret = Sign(DecValue(data1) - DecValue(data2))

\* Two negative numbers with different padding have been compared.
C10_Witness ==
    /\ DecimalCompared /\ HasMinus(data1) /\ HasMinus(data2)
    /\ len1 > len2 /\ DecValue(data1) > DecValue(data2) /\ ret = 1

-----------------------------------------------------------------------------
(* Properties of cmp_dtuple_rec_with_match_low, checked under SpecTuple *)

RecIsMin == BitAnd(rec_get_info_bits(rec), REC_INFO_MIN_REC_FLAG) # 0
TupleIsMin == BitAnd(dtuple_get_info_bits(dtuple), REC_INFO_MIN_REC_FLAG) # 0

\* The scalar comparison of field i of the tuple with field i of the record
FieldCmp(i) ==
    cmp_data_data(dtuple.fields[i + 1].type.mtype, dtuple.fields[i + 1].type.prtype,
                  dtuple.fields[i + 1].data, dtuple.fields[i + 1].len,
                  rec.fields[i + 1].data, rec.fields[i + 1].len)

\* C4 as claimed: whatever the matched fields passed in, a record with the
\* minimum record flag is less than a tuple without it.
C4_MinRecAnyMatched ==
    (pc = "returned" /\ calls = 1 /\ RecIsMin /\ ~TupleIsMin) => ret = 1

\* C4, amended: when the call is passed 0 matched fields, a record with the
\* minimum record flag is less than a tuple without it: the result is 1.
C4_MinRecFromZero ==
    (pc = "returned" /\ matched_in = 0 /\ RecIsMin /\ ~TupleIsMin) => ret = 1

\* A flagged record whose first field is greater than the tuple's has been
\* compared from field 0.
C4_Witness ==
    /\ pc = "returned" /\ matched_in = 0 /\ RecIsMin /\ ~TupleIsMin
    /\ FieldCmp(0) = -1 /\ ret = 1

NoExternField(n) == \A i \in 0..(n - 1) : ~rec_get_nth_field_ext(rec, i)

\* C5: resumability: after a call from 0 matched fields with k fields to
\* compare and calls that resume with the matched fields returned and
\* n >= k fields to compare, the result and the matched fields are those
\* of one call from 0 matched fields with n fields to compare (no field of
\* the record among the first n being stored externally).
C5_Resumable ==
    (pc = "returned" /\ calls >= 2 /\ matched_in = 0 /\ NoExternField(n_cmp)) =>
        LET one == cmp_dtuple_rec_with_match_low(dtuple, rec, n_cmp, 0)
        IN  ret = one.ret /\ matched_fields = one.cur_field

\* The second call went on from a matched field of the first and found the
\* difference in a later field.
C5_Witness ==
    /\ pc = "returned" /\ calls = 2 /\ matched_in = 0 /\ NoExternField(n_cmp)
    /\ n_cmp = MaxFields /\ matched_fields = MaxFields - 1 /\ ret = -1

\* C6 as claimed: from 0 matched fields and whatever the info bits, the
\* result is 0 exactly if the matched fields are n_cmp, and a nonzero result
\* comes with the index of the first field that compares nonzero.
C6_MatchedAnyInfoBits ==
    (pc = "returned" /\ calls = 1 /\ matched_in = 0) =>
        /\ ret = 0 <=> matched_fields = n_cmp
        /\ ret # 0 =>
             /\ matched_fields < n_cmp
             /\ FieldCmp(matched_fields) = ret
             /\ \A i \in 0..(matched_fields - 1) : FieldCmp(i) = 0

\* C6, amended: from 0 matched fields, if neither the tuple nor the record
\* has the minimum record flag, the result is 0 exactly if the matched
\* fields are n_cmp, and a nonzero result comes with the index of the first
\* field that compares nonzero; if one of them has the flag no field is
\* compared: the matched fields are 0, and the result is 1 for a flagged
\* record and an unflagged tuple, 0 if both are flagged, -1 for a flagged
\* tuple and an unflagged record.
C6_Matched ==
    (pc = "returned" /\ calls = 1 /\ matched_in = 0) =>
        IF RecIsMin \/ TupleIsMin
        THEN /\ matched_fields = 0
             /\ ret = (IF ~RecIsMin THEN -1 ELSE IF TupleIsMin THEN 0 ELSE 1)
        ELSE /\ ret = 0 <=> matched_fields = n_cmp
             /\ ret # 0 =>
                  /\ matched_fields < n_cmp
                  /\ FieldCmp(matched_fields) = ret
                  /\ \A i \in 0..(matched_fields - 1) : FieldCmp(i) = 0

\* Without flags, the first field matched and the second one decided.
C6_Witness ==
    /\ pc = "returned" /\ calls = 1 /\ matched_in = 0
    /\ ~RecIsMin /\ ~TupleIsMin
    /\ n_cmp = MaxFields /\ matched_fields = 1 /\ ret = 1

-----------------------------------------------------------------------------
(* Properties of cmp_rec_rec_with_match, checked under SpecRec *)

Rec1IsMin == BitAnd(rec_get_info_bits(rec1), REC_INFO_MIN_REC_FLAG) # 0
Rec2IsMin == BitAnd(rec_get_info_bits(rec2), REC_INFO_MIN_REC_FLAG) # 0

\* The value the comparison of the fields alone gives
FieldsDecide == cmp_rec_rec_loop(rec1, rec2, index, nulls_unequal, 0).ret

\* C7 as claimed: if exactly one record has the minimum record flag it is
\* the lesser one, and if both have it the fields decide.
C7_SentinelSymmetric ==
    pc = "returned" =>
        /\ (Rec1IsMin /\ ~Rec2IsMin) => ret = -1
        /\ (Rec2IsMin /\ ~Rec1IsMin) => ret = 1
        /\ (Rec1IsMin /\ Rec2IsMin) => ret = FieldsDecide

\* C7, amended: if rec1 has the minimum record flag the result is -1,
\* whether or not rec2 has it too (a case that only an assertion of debug
\* builds excludes), and if only rec2 has it the result is 1; the fields
\* are not looked at.
C7_Sentinel ==
    pc = "returned" =>
        /\ Rec1IsMin => ret = -1
        /\ (Rec2IsMin /\ ~Rec1IsMin) => ret = 1

\* A flagged rec2 whose fields are less than those of rec1 has been found
\* the lesser record.
C7_Witness ==
    /\ pc = "returned" /\ Rec2IsMin /\ ~Rec1IsMin
    /\ FieldsDecide = -1 /\ ret = 1

-----------------------------------------------------------------------------
(* Properties of cmp_rec_rec_simple, checked under SpecSimple *)

SimpleFieldCmp(i) == cmp_rec_rec_simple_field(rec1, rec2, index, i)
Called == pc \in {"returned", "ut_ad"}
UniqEqual == \A i \in 0..(index.n_uniq - 1) : SimpleFieldCmp(i) = 0
UniqNull ==
    \E i \in 0..(index.n_uniq - 1) :
        rec_offs_nth_sql_null(rec1, i) \/ rec_offs_nth_sql_null(rec2, i)
\* The fields past the ordering columns that compare nonzero
RestDiffer == {i \in index.n_uniq..(index.n_fields - 1) : SimpleFieldCmp(i) # 0}

\* C8 as claimed: on a unique index, records whose ordering columns are
\* equal and not NULL are reported as duplicates and the call returns 0
\* without comparing the other columns.
C8_DuplicateOnUnique ==
    (Called /\ UniqEqual /\ ~UniqNull /\ dict_index_is_unique(index)) =>
        pc = "returned" /\ reported /\ ret = 0 /\ cur_n = index.n_uniq

\* C8, amended: on a unique index and with a table passed to report to,
\* records whose ordering columns are equal and not NULL are reported as
\* duplicates and the call returns 0 without comparing the other columns.
C8_DuplicateWithTable ==
    (Called /\ UniqEqual /\ ~UniqNull /\ dict_index_is_unique(index) /\ table) =>
        pc = "returned" /\ reported /\ ret = 0 /\ cur_n = index.n_uniq

\* A duplicate has been reported for records that differ past the ordering
\* columns.
C8_Witness ==
    /\ pc = "returned" /\ UniqEqual /\ ~UniqNull /\ dict_index_is_unique(index)
    /\ table /\ RestDiffer # {} /\ reported /\ ret = 0

\* C9: if the ordering columns are equal and one of them is NULL, nothing
\* is reported, even on a unique index with a table; the result is the
\* comparison of the first of the other columns that differs, and if none
\* differs the call ends at the assertion that is never to be reached (a
\* build without assertions returns 0 there, having compared every column).
C9_NullNotDuplicate ==
    (Called /\ UniqEqual /\ UniqNull) =>
        /\ ~reported
        /\ IF RestDiffer # {}
           THEN /\ pc = "returned"
                /\ cur_n = MinOf(RestDiffer)
                /\ ret = SimpleFieldCmp(MinOf(RestDiffer))
           ELSE /\ cur_n = index.n_fields
                /\ pc = "returned" => ret = 0

\* On a unique index with a table, NULL ordering columns were passed over
\* and a later column decided.
C9_Witness ==
    /\ pc = "returned" /\ UniqEqual /\ UniqNull
    /\ dict_index_is_unique(index) /\ table
    /\ RestDiffer # {} /\ ret = 1 /\ ~reported

-----------------------------------------------------------------------------
(* Properties of cmp_dtuple_is_prefix_of_rec, checked under SpecPrefix *)

\* Field i of the tuple against field i of the record
PrefixFieldCmp(i) ==
    cmp_data_data(dtuple.fields[i + 1].type.mtype, dtuple.fields[i + 1].type.prtype,
                  dtuple.fields[i + 1].data, dtuple.fields[i + 1].len,
                  rec.fields[i + 1].data, rec.fields[i + 1].len)

\* The bytes of field i of the tuple are a prefix (proper or not) of the
\* bytes of field i of the record
BytePrefix(i) ==
    LET df == dtuple.fields[i + 1]
        rf == rec.fields[i + 1]
    IN  /\ df.len # UNIV_SQL_NULL /\ rf.len # UNIV_SQL_NULL /\ ~rf.ext
        /\ df.len <= rf.len
        /\ SubSeq(rf.data, 1, df.len) = df.data

\* The tuple is a prefix of the record as the comment of the function
\* defines it
IsPrefixOfRec ==
    LET n == dtuple_get_n_fields(dtuple)
    IN  /\ n <= rec_offs_n_fields(rec)
        /\ \A i \in 0..(n - 2) : ~rec.fields[i + 1].ext /\ PrefixFieldCmp(i) = 0
        /\ BytePrefix(n - 1)

\* C11: cmp_dtuple_is_prefix_of_rec returns TRUE if the tuple has no more
\* fields than the record, the fields of the tuple before the last compare
\* equal to those of the record and the last one is a byte prefix of the
\* record's; it returns FALSE if the tuple has more fields than the record.
C11_PrefixOfRec ==
    pc = "returned" =>
        /\ IsPrefixOfRec => ret = 1
        /\ dtuple_get_n_fields(dtuple) > rec_offs_n_fields(rec) => ret = 0

-----------------------------------------------------------------------------
(* Properties of the matched fields of cmp_rec_rec_with_match, checked under
   SpecRec *)

\* The type field i is compared with
RecCol(i) ==
    IF dict_index_is_univ(index)
    THEN [mtype |-> "DATA_BINARY", prtype |-> PrType(FALSE, TRUE, ULINT_UNDEFINED)]
    ELSE dict_index_get_nth_col(index, i)

\* Field i of rec1 against field i of rec2
RecFieldCmp(i) ==
    cmp_data_data(RecCol(i).mtype, RecCol(i).prtype,
                  rec1.fields[i + 1].data, rec1.fields[i + 1].len,
                  rec2.fields[i + 1].data, rec2.fields[i + 1].len)

\* C12: when cmp_rec_rec_with_match returns, *matched_fields is the number
\* of leading fields compared and found equal: it is at most the number of
\* fields of either record, every field below it compares equal, and it is
\* 0 when the minimum record flag decides before any field is compared.
C12_MatchedFields ==
    pc = "returned" =>
        /\ matched_fields <= Min2(rec_offs_n_fields(rec1), rec_offs_n_fields(rec2))
        /\ \A i \in 0..(matched_fields - 1) : RecFieldCmp(i) = 0
        /\ (Rec1IsMin \/ Rec2IsMin) => matched_fields = 0

-----------------------------------------------------------------------------
(* Properties of the order cmp_data_data defines, checked under SpecOrder *)

\* C13: for a type compared byte by byte, with or without a pad byte, the
\* comparison is a total preorder: a field compares equal to itself, and if
\* data1 is not greater than data2 and data2 not greater than data3, then
\* data1 is not greater than data3.
C13_TotalPreorder ==
    pc = "returned" =>
        /\ (data1 = data2 /\ len1 = len2) => ret = 0
        /\ (ret <= 0 /\ cmp_data_data(mtype, prtype, data2, len2, data3, len3) <= 0)
              => cmp_data_data(mtype, prtype, data1, len1, data3, len3) <= 0

\* A chain through a field that equals its neighbour only by the padding:
\* data1 = data2 followed by pad bytes, and data2 < data3.
C13_Witness ==
    /\ pc = "returned" /\ ret = 0 /\ len1 # UNIV_SQL_NULL /\ len2 # UNIV_SQL_NULL
    /\ len3 # UNIV_SQL_NULL /\ len1 > len2
    /\ dtype_get_pad_char(mtype, prtype) # ULINT_UNDEFINED
    /\ cmp_data_data(mtype, prtype, data2, len2, data3, len3) = -1
    /\ cmp_data_data(mtype, prtype, data1, len1, data3, len3) = -1

-----------------------------------------------------------------------------
(* Properties of the nulls_unequal mode of cmp_rec_rec_with_match, checked
   under SpecRec *)

CommonFields == Min2(rec_offs_n_fields(rec1), rec_offs_n_fields(rec2))
BothNullAt(i) == rec_offs_nth_sql_null(rec1, i) /\ rec_offs_nth_sql_null(rec2, i)
\* The common fields at which the records do not compare as equal non-NULL
\* values
NotEqualNonNull ==
    {i \in 0..(CommonFields - 1) :
        \/ rec_offs_nth_sql_null(rec1, i)
        \/ rec_offs_nth_sql_null(rec2, i)
        \/ RecFieldCmp(i) # 0}
\* The first of them is NULL in both records
FirstIsNullPair ==
    /\ ~Rec1IsMin /\ ~Rec2IsMin
    /\ NotEqualNonNull # {}
    /\ BothNullAt(MinOf(NotEqualNonNull))

\* C14: without minimum record flags, if the first field at which the
\* records do not compare as equal non-NULL values is NULL in both: with
\* nulls_unequal the result is -1 and the matched fields are the index of
\* that field, for either order of the records; without nulls_unequal the
\* two NULLs compare equal and the comparison goes on with the next field
\* (the matched fields are beyond that field, all the fields below them
\* compare equal, and the result is that of the field they name, or 0 when
\* the common fields are exhausted).
C14_NullsUnequal ==
    (pc = "returned" /\ FirstIsNullPair) =>
        LET i == MinOf(NotEqualNonNull)
            swapped == cmp_rec_rec_with_match(rec2, rec1, index, nulls_unequal)
        IN  IF nulls_unequal
            THEN /\ ret = -1 /\ matched_fields = i
                 /\ swapped.ret = -1 /\ swapped.cur_field_set /\ swapped.cur_field = i
            ELSE /\ matched_fields > i
                 /\ matched_fields <= CommonFields
                 /\ \A j \in 0..(matched_fields - 1) : RecFieldCmp(j) = 0
                 /\ IF matched_fields < CommonFields
                    THEN ret # 0 /\ ret = RecFieldCmp(matched_fields)
                    ELSE ret = 0

\* With nulls_unequal, an equal first field was matched and the NULLs of the
\* second field ended the comparison.
C14_Witness ==
    /\ pc = "returned" /\ FirstIsNullPair /\ nulls_unequal
    /\ MinOf(NotEqualNonNull) = 1 /\ ret = -1 /\ matched_fields = 1

=============================================================================
